---- MODULE Spec2Model ----
(***************************************************************************)
(* A model of src/index.js: the GooogleSpreadsheet client (auth state,     *)
(* the makeFeedRequest promise chain, the public read operations), the     *)
(* SpreadsheetRow and SpreadsheetCell entities and the XML utilities.      *)
(*                                                                         *)
(* JavaScript strings are TLA+ strings where only concatenation and        *)
(* equality are needed (URLs, headers, messages) and sequences of lexemes  *)
(* where the code searches or rewrites them (content types, XML).          *)
(***************************************************************************)
EXTENDS Integers, Sequences, FiniteSets, TLC

VARIABLES
    auth_mode,      \* index.js:21   'anonymous' | 'token' | 'jwt'
    google_auth,    \* index.js:17   the stored credential
    jwt_client,     \* index.js:24   TRUE once useServiceAccountAuth built it
    visibility,     \* index.js:18
    projection,     \* index.js:19
    options,        \* index.js:26   the constructor's options
    now,            \* the wall clock read by +new Date() (index.js:94)
    issued,         \* number of tokens the token endpoint has issued
    initFetch,      \* state of the authorize() started by useServiceAccountAuth
    call,           \* per makeFeedRequest invocation: its place in the chain
    row,            \* a SpreadsheetRow instance
    cell,           \* a SpreadsheetCell instance
    requests,       \* makeFeedRequest invocations made by an entity
    util            \* a call of a utility function: its argument and result

vars == <<auth_mode, google_auth, jwt_client, visibility, projection, options,
          now, issued, initFetch, call, row, cell, requests, util>>

authVars == <<auth_mode, google_auth, jwt_client, visibility, projection, options>>
entityVars == <<row, cell, requests, util>>

-----------------------------------------------------------------------------
(* Bounds of the model *)

MaxTime == 1
MaxFetches == 3

\* The two makeFeedRequest invocations that may be in flight together.
Calls == {"A", "B"}

-----------------------------------------------------------------------------
(* JavaScript values *)

GOOGLE_FEED_URL == "https://spreadsheets.google.com/feeds/"

ss_key == "KEY"

\* null / undefined
Null == [kind |-> "null", type |-> "", value |-> "", expires |-> -1]

\* A credential given as a plain string (the legacy auth token)
StrCred(s) == [kind |-> "string", type |-> "", value |-> s, expires |-> -1]

\* A credential given as an object {type, value, expires}; expires = -1
\* stands for a missing expires property
ObjCred(t, v, e) == [kind |-> "object", type |-> t, value |-> v, expires |-> e]

\* String(x) as used by string concatenation
JsString(c) ==
    CASE c.kind = "string" -> c.value
      [] c.kind = "object" -> "[object Object]"
      [] OTHER -> "null"

\* Truthiness of a credential value
Truthy(c) ==
    CASE c.kind = "null" -> FALSE
      [] c.kind = "string" -> c.value # ""
      [] OTHER -> TRUE

\* Credentials a caller passes to the constructor or to setAuthToken
UserCreds ==
    { Null, StrCred("DQAAAH"),
      ObjCred("Bearer", "user.tok", 1),
      ObjCred("GoogleLogin", "DQAAAH", 1) }

\* The token the token endpoint issues as its n-th token. Google answers
\* with token_type Bearer and an expiry_date one lifetime ahead.
TokenTTL == 1

IssuedToken(n, t) == [token_type |-> "Bearer",
                      access_token |-> "ya29." \o ToString(n),
                      expiry_date |-> t + TokenTTL]

\* The constructor's options; "" stands for a property that is not given
OptionSets == { [visibility |-> "", projection |-> ""],
                [visibility |-> "private", projection |-> ""],
                [visibility |-> "", projection |-> "full"],
                [visibility |-> "private", projection |-> "full"] }

-----------------------------------------------------------------------------
(* Auth state: setAuthAndDependencies, setAuthToken, useServiceAccountAuth *)

\* setAuthAndDependencies(auth), as the values of the three variables it
\* assigns
DepVisibility(auth) ==
    IF options.visibility = ""
    THEN (IF Truthy(auth) THEN "private" ELSE "public")
    ELSE visibility

DepProjection(auth) ==
    IF options.projection = ""
    THEN (IF Truthy(auth) THEN "full" ELSE "values")
    ELSE projection

setAuthAndDependencies(auth) ==
    /\ google_auth' = auth
    /\ visibility' = DepVisibility(auth)
    /\ projection' = DepProjection(auth)

\* Mutant: setAuthToken turns every mode into 'token'
ModeAfterSetAuthTokenAlways(m) == "token"

\* The auth mode setAuthToken leaves
ModeAfterSetAuthToken(m) == IF m = "anonymous" THEN "token" ELSE m

\* Mutant: setAuthToken(null) takes the client back to anonymous
setAuthTokenResets(auth_id) ==
    /\ auth_mode' = (IF Truthy(auth_id) THEN ModeAfterSetAuthToken(auth_mode)
                     ELSE "anonymous")
    /\ setAuthAndDependencies(auth_id)

setAuthToken(auth_id) ==
    /\ auth_mode' = ModeAfterSetAuthToken(auth_mode)
    /\ setAuthAndDependencies(auth_id)

\* The credential renewJwtAuth's success callback builds from the token
TokenCred(token) ==
    ObjCred(token.token_type, token.access_token, token.expiry_date)

\* The auth mode renewJwtAuth leaves (it runs before authorize is called)
ModeAfterRenew(m) == "jwt"

-----------------------------------------------------------------------------
(* Requests and responses *)

\* url_params: a string (edit / delete requests) or an array of segments
StrTarget(u) == [kind |-> "string", str |-> u, arr |-> <<>>]
ArrTarget(a) == [kind |-> "array", str |-> "", arr |-> a]

\* query_or_data: null, a query object (a sequence of <<key, value>> pairs,
\* possibly empty) or an XML document
NoData == [kind |-> "null", pairs |-> <<>>, text |-> ""]
Query(ps) == [kind |-> "query", pairs |-> ps, text |-> ""]
Xml(t) == [kind |-> "xml", pairs |-> <<>>, text |-> t]

DataTruthy(d) ==
    CASE d.kind = "null" -> FALSE
      [] d.kind = "query" -> TRUE
      [] OTHER -> d.text # ""

RECURSIVE Join(_, _)
\* Array.prototype.join
Join(a, sep) ==
    IF Len(a) = 0 THEN ""
    ELSE IF Len(a) = 1 THEN a[1]
    ELSE a[1] \o sep \o Join(Tail(a), sep)

RECURSIVE Stringify(_)
\* querystring.stringify of a query object
Stringify(ps) ==
    IF Len(ps) = 0 THEN ""
    ELSE ps[1][1] \o "=" \o ps[1][2]
         \o (IF Len(ps) > 1 THEN "&" \o Stringify(Tail(ps)) ELSE "")

EDIT_URL == "https://spreadsheets.google.com/feeds/list/KEY/1/private/full/cokwr"

\* The content-type header of a response as its lexemes; <<>> stands for a
\* response without the header
NoContentType == <<>>
HtmlType == <<"text/html", "; charset=UTF-8">>
AtomType == <<"application/atom+xml", "; charset=UTF-8", "; type=feed">>

\* String.prototype.indexOf on a lexeme sequence: -1 when absent,
\* otherwise the (0-based) lexeme position
IndexOf(s, w) ==
    IF \E i \in 1..Len(s) : s[i] = w
    THEN (CHOOSE i \in 1..Len(s) : s[i] = w /\ \A j \in 1..(i-1) : s[j] # w) - 1
    ELSE -1

\* http.STATUS_CODES
STATUS_CODES(n) ==
    CASE n = 200 -> "OK"
      [] n = 201 -> "Created"
      [] n = 400 -> "Bad Request"
      [] n = 401 -> "Unauthorized"
      [] n = 403 -> "Forbidden"
      [] n = 404 -> "Not Found"
      [] n = 500 -> "Internal Server Error"
      [] OTHER -> "undefined"

FEED_XML == "<feed><title>Sheet</title><entry>e1</entry></feed>"
EMPTY_FEED_XML == "<feed><title>Sheet</title></feed>"
LOGIN_HTML == "<html>Sign in</html>"
PLAIN_TEXT == "Token invalid"

Response(st, ct, b) == [status |-> st, ctype |-> ct, body |-> b]
NoResponse == Response(0, NoContentType, "")

Statuses == {200, 201, 401, 403, 404}
ContentTypes == {NoContentType, HtmlType, AtomType}
Bodies == {"", FEED_XML, EMPTY_FEED_XML, LOGIN_HTML, PLAIN_TEXT}

AllResponses ==
    { Response(st, ct, b) : st \in Statuses, ct \in ContentTypes, b \in Bodies }

\* One response of each class: a feed, an authorization failure, another
\* failure status, the HTML login page
FewResponses ==
    { Response(200, AtomType, FEED_XML), Response(401, HtmlType, PLAIN_TEXT),
      Response(404, HtmlType, PLAIN_TEXT), Response(200, HtmlType, LOGIN_HTML) }

\* The parsed document xml2js hands back: no document (null), or the
\* feed's title and its entry property (absent, one object, or an array)
JsUndefined == [kind |-> "undefined", items |-> <<>>]
JsObject(x) == [kind |-> "object", items |-> <<x>>]
JsArray(xs) == [kind |-> "array", items |-> xs]

NullJson == [kind |-> "null", title |-> "", entry |-> JsUndefined]
TrueJson == [kind |-> "true", title |-> "", entry |-> JsUndefined]
FeedJson(t, e) == [kind |-> "object", title |-> t, entry |-> e]

\* xml_parser.parseString: a result or an error
ParseString(xml) ==
    CASE xml = FEED_XML -> [ok |-> TRUE, json |-> FeedJson("Sheet", JsObject("e1"))]
      [] xml = EMPTY_FEED_XML -> [ok |-> TRUE, json |-> FeedJson("Sheet", JsUndefined)]
      [] xml = LOGIN_HTML -> [ok |-> TRUE, json |-> FeedJson("", JsUndefined)]
      [] OTHER -> [ok |-> FALSE, json |-> NullJson]

-----------------------------------------------------------------------------
(* makeFeedRequest: one invocation's promise chain *)

NoHeaders == [n \in {} |-> ""]
NoRequest == [url |-> "", method |-> "", headers |-> NoHeaders, body |-> NoData]
NoResult == [json |-> NullJson, xml |-> "", value |-> ""]

\* An invocation that has not been made
IdleCall ==
    [ pc |-> "idle", op |-> "", target |-> StrTarget(""), method |-> "",
      data |-> NoData, url |-> "",
      check |-> "none",     \* what the expiry check at line 94 found
      seen |-> "",          \* the token value that check looked at
      fetches |-> 0,        \* authorize() calls this invocation started
      fetchId |-> 0,        \* which authorize() call it waits for
      tok |-> Null,         \* the credential built from its fetched token
      sent |-> 0,           \* HTTP requests this invocation sent
      req |-> NoRequest,    \* the HTTP request it sent
      res |-> NoResponse,   \* the response it got
      parsed |-> FALSE,     \* whether the body went to the XML parser
      err |-> "", msg |-> "",
      result |-> NoResult ]

\* The ways the library invokes makeFeedRequest, and two direct invocations
Invocations ==
    { [op |-> "getInfo", target |-> ArrTarget(<<"worksheets", ss_key>>),
       method |-> "GET", data |-> NoData],
      [op |-> "getRows", target |-> ArrTarget(<<"list", ss_key, "1">>),
       method |-> "GET", data |-> Query(<<>>)],
      [op |-> "getRows", target |-> ArrTarget(<<"list", ss_key, "1">>),
       method |-> "GET", data |-> Query(<<<<"start-index", "2">>, <<"max-results", "5">>>>)],
      [op |-> "getCells", target |-> ArrTarget(<<"cells", ss_key, "1">>),
       method |-> "GET", data |-> Query(<<<<"min-row", "1">>>>)],
      [op |-> "addRow", target |-> ArrTarget(<<"list", ss_key, "1">>),
       method |-> "POST", data |-> Xml("<entry>new</entry>")],
      [op |-> "save", target |-> StrTarget(EDIT_URL),
       method |-> "PUT", data |-> Xml("<entry>edited</entry>")],
      [op |-> "del", target |-> StrTarget(EDIT_URL),
       method |-> "DELETE", data |-> NoData] }

\* The invocations of the auth specification: a GET without and with a
\* query, a POST and a PUT
FewInvocations ==
    { i \in Invocations :
        \/ i.op \in {"getInfo", "addRow", "save"}
        \/ i.op = "getRows" /\ i.data # Query(<<>>) }

\* makeFeedRequest is called: the chain's first callback is queued
Invoke(p, I) ==
    /\ call[p].pc = "idle"
    /\ \E i \in I :
         call' = [call EXCEPT ![p] =
                    [IdleCall EXCEPT !.pc = "queued", !.op = i.op,
                                     !.target = i.target, !.method = i.method,
                                     !.data = i.data]]
    /\ UNCHANGED <<authVars, now, issued, initFetch, entityVars>>

\* The array url_params after push(visibility, projection)
Pushed(t) ==
    IF t.kind = "array"
    THEN [t EXCEPT !.arr = t.arr \o <<visibility, projection>>]
    ELSE t

\* Mutant: visibility and projection are not appended to the segments
BuildUrlOfSegments(t) ==
    IF t.kind = "string" THEN t.str
    ELSE GOOGLE_FEED_URL \o Join(t.arr, "/")

\* The url the first callback builds
BuildUrl(t) ==
    IF t.kind = "string" THEN t.str
    ELSE GOOGLE_FEED_URL \o Join(Pushed(t).arr, "/")

\* Mutant: the expiry test written with >= instead of >
NotExpiredInclusive(auth, t) ==
    auth.kind = "object" /\ auth.expires # -1 /\ auth.expires >= t

\* google_auth.expires > +new Date(): a missing expires or a string
\* credential gives undefined, and undefined > n is false
NotExpired(auth, t) ==
    auth.kind = "object" /\ auth.expires # -1 /\ auth.expires > t

\* What the expiry check finds
CheckOf(auth, t) ==
    IF auth.kind # "object" \/ auth.expires = -1 THEN "noexpiry"
    ELSE IF NotExpired(auth, t) THEN "fresh" ELSE "expired"

\* Mutant: the expiry of the stored token is checked in every mode, and an
\* expired one is renewed
PrepareNoJwtRenews(p) ==
    /\ call[p].pc = "queued"
    /\ auth_mode # "jwt"
    /\ IF google_auth.kind = "object" /\ ~NotExpired(google_auth, now)
          /\ issued < MaxFetches
       THEN /\ issued' = issued + 1
            /\ call' = [call EXCEPT ![p].pc = "renewing",
                                    ![p].target = Pushed(call[p].target),
                                    ![p].url = BuildUrl(call[p].target),
                                    ![p].fetches = call[p].fetches + 1,
                                    ![p].fetchId = issued + 1]
       ELSE /\ issued' = issued
            /\ call' = [call EXCEPT ![p].pc = "ready",
                                    ![p].target = Pushed(call[p].target),
                                    ![p].url = BuildUrl(call[p].target)]
    /\ UNCHANGED <<authVars, now, initFetch, entityVars>>

\* First callback, mode other than jwt
PrepareNoJwt(p) ==
    /\ call[p].pc = "queued"
    /\ auth_mode # "jwt"
    /\ call' = [call EXCEPT ![p].pc = "ready",
                            ![p].target = Pushed(call[p].target),
                            ![p].url = BuildUrl(call[p].target)]
    /\ UNCHANGED <<authVars, now, issued, initFetch, entityVars>>

\* Mutant: a missing credential is taken for a token that needs no renewal
PrepareSkipsMissingToken(p) ==
    /\ call[p].pc = "queued"
    /\ auth_mode = "jwt"
    /\ google_auth.kind = "null"
    /\ call' = [call EXCEPT ![p].pc = "ready",
                            ![p].target = Pushed(call[p].target),
                            ![p].url = BuildUrl(call[p].target)]
    /\ UNCHANGED <<authVars, now, issued, initFetch, entityVars>>

\* First callback, jwt mode with no credential stored: reading
\* google_auth.expires throws
PrepareThrows(p) ==
    /\ call[p].pc = "queued"
    /\ auth_mode = "jwt"
    /\ google_auth.kind = "null"
    /\ call' = [call EXCEPT ![p].pc = "failed",
                            ![p].target = Pushed(call[p].target),
                            ![p].url = BuildUrl(call[p].target),
                            ![p].err = "TypeError",
                            ![p].msg = "Cannot read property 'expires' of null"]
    /\ UNCHANGED <<authVars, now, issued, initFetch, entityVars>>

\* First callback, jwt mode, token still valid
PrepareFresh(p) ==
    /\ call[p].pc = "queued"
    /\ auth_mode = "jwt"
    /\ google_auth.kind # "null"
    /\ NotExpired(google_auth, now)
    /\ call' = [call EXCEPT ![p].pc = "ready",
                            ![p].target = Pushed(call[p].target),
                            ![p].url = BuildUrl(call[p].target),
                            ![p].check = "fresh",
                            ![p].seen = google_auth.value]
    /\ UNCHANGED <<authVars, now, issued, initFetch, entityVars>>

\* Mutant: renewJwtAuth() is called but its promise is not returned, so
\* the chain goes on without waiting for the token
PrepareRenewNoWait(p) ==
    /\ call[p].pc = "queued"
    /\ auth_mode = "jwt"
    /\ google_auth.kind # "null"
    /\ ~NotExpired(google_auth, now)
    /\ issued < MaxFetches
    /\ auth_mode' = ModeAfterRenew(auth_mode)
    /\ issued' = issued + 1
    /\ call' = [call EXCEPT ![p].pc = "ready",
                            ![p].target = Pushed(call[p].target),
                            ![p].url = BuildUrl(call[p].target),
                            ![p].check = CheckOf(google_auth, now),
                            ![p].seen = google_auth.value,
                            ![p].fetches = call[p].fetches + 1,
                            ![p].fetchId = issued + 1]
    /\ UNCHANGED <<google_auth, jwt_client, visibility, projection, options,
                   now, initFetch, entityVars>>

\* First callback, jwt mode, token expired: renewJwtAuth() sets the mode
\* and calls authorize
PrepareRenew(p) ==
    /\ call[p].pc = "queued"
    /\ auth_mode = "jwt"
    /\ google_auth.kind # "null"
    /\ ~NotExpired(google_auth, now)
    /\ issued < MaxFetches
    /\ auth_mode' = ModeAfterRenew(auth_mode)
    /\ issued' = issued + 1
    /\ call' = [call EXCEPT ![p].pc = "renewing",
                            ![p].target = Pushed(call[p].target),
                            ![p].url = BuildUrl(call[p].target),
                            ![p].check = CheckOf(google_auth, now),
                            ![p].seen = google_auth.value,
                            ![p].fetches = call[p].fetches + 1,
                            ![p].fetchId = issued + 1]
    /\ UNCHANGED <<google_auth, jwt_client, visibility, projection, options,
                   now, initFetch, entityVars>>

\* authorize() succeeds: the callback calls self.setAuthToken with the
\* token; the chain's second callback is queued
RenewOk(p) ==
    /\ call[p].pc = "renewing"
    /\ LET cred == TokenCred(IssuedToken(call[p].fetchId, now))
       IN /\ setAuthToken(cred)
          /\ call' = [call EXCEPT ![p].pc = "ready", ![p].tok = cred]
    /\ UNCHANGED <<jwt_client, options, now, issued, initFetch, entityVars>>

\* Mutant: a failed authorize() drops the stored credential
RenewFailClearsToken(p) ==
    /\ call[p].pc = "renewing"
    /\ call' = [call EXCEPT ![p].pc = "failed", ![p].err = "AuthorizeError",
                            ![p].msg = "authorize failed"]
    /\ setAuthAndDependencies(Null)
    /\ UNCHANGED <<auth_mode, jwt_client, options, now, issued, initFetch,
                   entityVars>>

\* authorize() fails: the chain is rejected
RenewFail(p) ==
    /\ call[p].pc = "renewing"
    /\ call' = [call EXCEPT ![p].pc = "failed", ![p].err = "AuthorizeError",
                            ![p].msg = "authorize failed"]
    /\ UNCHANGED <<authVars, now, issued, initFetch, entityVars>>

\* The Authorization header of the second callback
AuthHeaders(auth) ==
    IF Truthy(auth)
    THEN IF auth.kind = "object" /\ auth.type = "Bearer"
         THEN "Authorization" :> ("Bearer " \o auth.value)
         ELSE "Authorization" :> ("GoogleLogin auth=" \o JsString(auth))
    ELSE NoHeaders

ContentTypeHeaders(method) ==
    IF method = "POST" \/ method = "PUT"
    THEN "content-type" :> "application/atom+xml"
    ELSE NoHeaders

\* The url with the query string of a GET
WithQuery(url, method, data) ==
    IF method = "GET" /\ DataTruthy(data)
    THEN url \o "?" \o (IF data.kind = "query" THEN Stringify(data.pairs) ELSE "")
    ELSE url

\* The object handed to https.request
HttpRequest(c, auth) ==
    [ url |-> WithQuery(c.url, c.method, c.data),
      method |-> c.method,
      headers |-> AuthHeaders(auth) @@ ContentTypeHeaders(c.method),
      body |-> IF c.method = "POST" \/ c.method = "PUT" THEN c.data ELSE NoData ]

\* Second callback: headers, query string, https.request
Send(p) ==
    /\ call[p].pc = "ready"
    /\ call' = [call EXCEPT ![p].pc = "awaiting",
                            ![p].req = HttpRequest(call[p], google_auth),
                            ![p].url = WithQuery(call[p].url, call[p].method, call[p].data),
                            ![p].sent = call[p].sent + 1]
    /\ UNCHANGED <<authVars, now, issued, initFetch, entityVars>>

\* The request or the reading of the body fails
TransportError(p) ==
    /\ call[p].pc = "awaiting"
    /\ call' = [call EXCEPT ![p].pc = "failed", ![p].err = "TransportError",
                            ![p].msg = "socket hang up"]
    /\ UNCHANGED <<authVars, now, issued, initFetch, entityVars>>

\* The classification of a response: the error thrown, or "" for none
Classify(res) ==
    IF res.status = 401 THEN "AuthorizationFailure"
    ELSE IF res.status >= 400 THEN "RequestFailure"
    ELSE IF res.status = 200 /\ res.ctype = NoContentType THEN "TypeError"
    ELSE IF res.status = 200 /\ IndexOf(res.ctype, "text/html") >= 0
         THEN "PrivateResourceFailure"
    ELSE ""

PRIVATE_MESSAGE == "Sheet is private. Use authentication or make public. (see https://github.com/theoephraim/node-google-spreadsheet#a-note-on-authentication for details)\n"

\* The message of the error thrown
ErrorMessage(res) ==
    CASE Classify(res) = "AuthorizationFailure" ->
           "Invalid authorization key. " \o res.body
      [] Classify(res) = "RequestFailure" ->
           "HTTP error " \o ToString(res.status) \o ": "
             \o STATUS_CODES(res.status) \o ". " \o res.body
      [] Classify(res) = "TypeError" ->
           "Cannot read property 'indexOf' of undefined"
      [] Classify(res) = "PrivateResourceFailure" -> PRIVATE_MESSAGE \o res.body
      [] OTHER -> ""

\* Mutant: an authorization failure sends the chain back to its start
RespondRetries(p, R) ==
    /\ call[p].pc = "awaiting"
    /\ \E res \in R :
         call' = [call EXCEPT ![p].pc = IF Classify(res) = "" THEN "classified"
                                        ELSE IF res.status = 401 THEN "queued"
                                        ELSE "failed",
                              ![p].res = res,
                              ![p].err = Classify(res),
                              ![p].msg = ErrorMessage(res)]
    /\ UNCHANGED <<authVars, now, issued, initFetch, entityVars>>

\* Third and fourth callbacks: the response and its body arrive and are
\* classified
Respond(p, R) ==
    /\ call[p].pc = "awaiting"
    /\ \E res \in R :
         call' = [call EXCEPT ![p].pc = IF Classify(res) = "" THEN "classified"
                                        ELSE "failed",
                              ![p].res = res,
                              ![p].err = Classify(res),
                              ![p].msg = ErrorMessage(res)]
    /\ UNCHANGED <<authVars, now, issued, initFetch, entityVars>>

\* Fifth and sixth callbacks: a non-empty body goes to the parser, an
\* empty one gives [null, null]
ParseBody(p) ==
    /\ call[p].pc = "classified"
    /\ LET xml == call[p].res.body
       IN call' = [call EXCEPT ![p] =
            IF xml # ""
            THEN IF ParseString(xml).ok
                 THEN [@ EXCEPT !.pc = "resolved", !.parsed = TRUE,
                                !.result = [json |-> ParseString(xml).json,
                                            xml |-> xml, value |-> ""]]
                 ELSE [@ EXCEPT !.pc = "failed", !.parsed = TRUE,
                                !.err = "ParseError",
                                !.msg = "Non-whitespace before first tag."]
            ELSE [@ EXCEPT !.pc = "resolved",
                           !.result = [json |-> NullJson, xml |-> "", value |-> ""]]]
    /\ UNCHANGED <<authVars, now, issued, initFetch, entityVars>>

-----------------------------------------------------------------------------
(* getInfo, getRows, getCells: the callback on makeFeedRequest's result *)

\* forceArray
forceArray(val) ==
    IF val.kind = "array" THEN val.items
    ELSE IF val.kind = "undefined" THEN <<>>
    ELSE <<val.items[1]>>

ReadOps == {"getInfo", "getRows", "getCells"}

NO_RESPONSE(op) == "No response to " \o op \o " call"

\* The error the callback of a read operation throws on (data, xml), or ""
ReadError(op, data, xml) ==
    IF data = TrueJson THEN NO_RESPONSE(op)
    ELSE IF op = "getInfo"
         THEN IF data.kind = "null" THEN "Cannot read property 'title' of null"
              ELSE IF data.title = "" THEN "Cannot read property '_' of undefined"
              ELSE ""
    ELSE IF op = "getRows"
         THEN IF xml = "" THEN "Cannot read property 'toString' of null"
              ELSE ""
    ELSE IF data.kind = "null" THEN "Cannot read property 'entry' of null"
         ELSE ""

\* The kind of that error
ReadErrorKind(op, data, xml) ==
    IF ReadError(op, data, xml) = "" THEN ""
    ELSE IF ReadError(op, data, xml) = NO_RESPONSE(op) THEN "EmptyResponse"
    ELSE "TypeError"

\* The .spread callback of getInfo / getRows / getCells
ReadCallback(p) ==
    /\ call[p].pc = "resolved"
    /\ call[p].op \in ReadOps
    /\ LET c == call[p]
           e == ReadError(c.op, c.result.json, c.result.xml)
       IN call' = [call EXCEPT ![p] =
            IF e # ""
            THEN [@ EXCEPT !.pc = "failed", !.msg = e,
                           !.err = ReadErrorKind(c.op, c.result.json, c.result.xml)]
            ELSE [@ EXCEPT !.pc = "returned",
                           !.result.value =
                              ToString(Len(forceArray(c.result.json.entry)))]]
    /\ UNCHANGED <<authVars, now, issued, initFetch, entityVars>>

\* An invocation whose promise is settled
Ended(c) ==
    \/ c.pc \in {"returned", "failed"}
    \/ c.pc = "resolved" /\ c.op \notin ReadOps

\* The caller is done with a settled invocation
Forget(p) ==
    /\ Ended(call[p])
    /\ call' = [call EXCEPT ![p] = IdleCall]
    /\ UNCHANGED <<authVars, now, issued, initFetch, entityVars>>

-----------------------------------------------------------------------------
(* The caller's auth operations and the environment *)

SetAuthToken(U) ==
    /\ \E auth_id \in U : setAuthToken(auth_id)
    /\ UNCHANGED <<jwt_client, options, now, issued, initFetch, call, entityVars>>

\* useServiceAccountAuth(creds): builds the JWT client, then renewJwtAuth()
UseServiceAccountAuth ==
    /\ issued < MaxFetches
    /\ jwt_client' = TRUE
    /\ auth_mode' = ModeAfterRenew(auth_mode)
    /\ issued' = issued + 1
    /\ initFetch' = initFetch \cup {issued + 1}
    /\ UNCHANGED <<google_auth, visibility, projection, options, now, call,
                   entityVars>>

\* The authorize() of useServiceAccountAuth succeeds
InitRenewOk ==
    /\ \E n \in initFetch :
         /\ setAuthToken(TokenCred(IssuedToken(n, now)))
         /\ initFetch' = initFetch \ {n}
    /\ UNCHANGED <<jwt_client, options, now, issued, call, entityVars>>

\* The authorize() of useServiceAccountAuth fails
InitRenewFail ==
    /\ \E n \in initFetch : initFetch' = initFetch \ {n}
    /\ UNCHANGED <<authVars, now, issued, call, entityVars>>

Tick ==
    /\ now < MaxTime
    /\ now' = now + 1
    /\ UNCHANGED <<authVars, issued, initFetch, call, entityVars>>

-----------------------------------------------------------------------------
(* The client: construction and the concurrent specification *)

\* No utility call under observation
NoUtil == [fn |-> "", arg |-> <<>>, out |-> <<>>, again |-> <<>>]

NoRow == [hasXml |-> FALSE, xml |-> <<>>, hasLinks |-> FALSE,
          links |-> <<>>, keys |-> <<>>, vals |-> <<>>]
NoCell == [id |-> "", row |-> 0, col |-> 0,
           value |-> [kind |-> "undefined", s |-> <<>>], links |-> <<>>]

\* new GooogleSpreadsheet(ss_key, auth_id, options): visibility and
\* projection are declared as 'public' and 'values', and
\* setAuthAndDependencies(auth_id) assigns each of them only when the option
\* of its name is not given
Constructed(auth_id, opts) ==
    /\ auth_mode = "anonymous"
    /\ jwt_client = FALSE
    /\ options = opts
    /\ google_auth = auth_id
    /\ visibility = (IF opts.visibility # "" THEN "public"
                     ELSE IF Truthy(auth_id) THEN "private" ELSE "public")
    /\ projection = (IF opts.projection # "" THEN "values"
                     ELSE IF Truthy(auth_id) THEN "full" ELSE "values")

Init ==
    /\ \E auth_id \in UserCreds :
         Constructed(auth_id, [visibility |-> "", projection |-> ""])
    /\ now = 0
    /\ issued = 0
    /\ initFetch = {}
    /\ call = [p \in Calls |-> IdleCall]
    /\ row = NoRow
    /\ cell = NoCell
    /\ requests = <<>>
    /\ util = NoUtil

\* One step of invocation p, over invocations I and responses R
Step(p, I, R) ==
    \/ Invoke(p, I)
    \/ PrepareNoJwt(p)
    \/ PrepareThrows(p)
    \/ PrepareFresh(p)
    \/ PrepareRenew(p)
    \/ RenewOk(p)
    \/ RenewFail(p)
    \/ Send(p)
    \/ TransportError(p)
    \/ Respond(p, R)
    \/ ParseBody(p)
    \/ ReadCallback(p)
    \/ Forget(p)

\* The client with one invocation in flight at a time, next to the
\* caller's auth operations and the token fetch of useServiceAccountAuth
Next ==
    \/ SetAuthToken(UserCreds)
    \/ UseServiceAccountAuth
    \/ InitRenewOk
    \/ InitRenewFail
    \/ Tick
    \/ Step("A", FewInvocations, FewResponses)

Spec == Init /\ [][Next]_vars

-----------------------------------------------------------------------------
(* The client built with every combination of options, one invocation and *)
(* one response                                                            *)

InitOptions ==
    /\ \E auth_id \in UserCreds, opts \in OptionSets : Constructed(auth_id, opts)
    /\ now = 0
    /\ issued = 0
    /\ initFetch = {}
    /\ call = [p \in Calls |-> IdleCall]
    /\ row = NoRow
    /\ cell = NoCell
    /\ requests = <<>>
    /\ util = NoUtil

NextOptions ==
    \/ SetAuthToken(UserCreds)
    \/ UseServiceAccountAuth
    \/ InitRenewOk
    \/ InitRenewFail
    \/ Step("A", {i \in Invocations : i.op = "getInfo"},
            {Response(200, AtomType, FEED_XML)})

SpecOptions == InitOptions /\ [][NextOptions]_vars

-----------------------------------------------------------------------------
(* makeFeedRequest called only while the auth mode is anonymous or token,  *)
(* on a client that may be switched to service-account auth afterwards     *)

NextEarly ==
    \/ SetAuthToken(UserCreds)
    \/ ~jwt_client /\ UseServiceAccountAuth
    \/ InitRenewOk
    \/ InitRenewFail
    \/ Tick
    \/ auth_mode # "jwt"
         /\ Invoke("A", {i \in Invocations : i.op \in {"getInfo", "save"}})
    \/ PrepareNoJwt("A")
    \/ PrepareThrows("A")
    \/ PrepareFresh("A")
    \/ PrepareRenew("A")
    \/ RenewOk("A")
    \/ RenewFail("A")
    \/ Send("A")
    \/ TransportError("A")
    \/ Respond("A", {Response(200, AtomType, FEED_XML), Response(401, HtmlType, LOGIN_HTML)})
    \/ ParseBody("A")
    \/ ReadCallback("A")
    \/ Forget("A")

SpecEarly == Init /\ [][NextEarly]_vars

-----------------------------------------------------------------------------
(* The request chain without service-account auth, over every invocation  *)
(* and every response                                                      *)

PipeStep(p, I, R) ==
    \/ Invoke(p, I)
    \/ PrepareNoJwt(p)
    \/ Send(p)
    \/ TransportError(p)
    \/ Respond(p, R)
    \/ ParseBody(p)
    \/ ReadCallback(p)
    \/ Forget(p)

NextPipe ==
    \/ SetAuthToken(UserCreds)
    \/ PipeStep("A", Invocations, AllResponses)

SpecPipe == Init /\ [][NextPipe]_vars

-----------------------------------------------------------------------------
(* Two invocations in flight together on a service-account client: the     *)
(* client is built without a credential, useServiceAccountAuth is called   *)
(* once, and each invocation is made once                                  *)

InitRace ==
    /\ Constructed(Null, [visibility |-> "", projection |-> ""])
    /\ now = 0
    /\ issued = 0
    /\ initFetch = {}
    /\ call = [p \in Calls |-> IdleCall]
    /\ row = NoRow
    /\ cell = NoCell
    /\ requests = <<>>
    /\ util = NoUtil

RaceStep(p, I, R) ==
    \/ Invoke(p, I)
    \/ PrepareNoJwt(p)
    \/ PrepareThrows(p)
    \/ PrepareFresh(p)
    \/ PrepareRenew(p)
    \/ RenewOk(p)
    \/ RenewFail(p)
    \/ Send(p)
    \/ TransportError(p)
    \/ Respond(p, R)
    \/ ParseBody(p)
    \/ ReadCallback(p)

NextRace ==
    \/ ~jwt_client /\ UseServiceAccountAuth
    \/ InitRenewOk
    \/ InitRenewFail
    \/ Tick
    \/ \E p \in Calls :
         RaceStep(p, {i \in Invocations : i.op = "getInfo"},
                  {Response(200, AtomType, FEED_XML)})

SpecRace == InitRace /\ [][NextRace]_vars

-----------------------------------------------------------------------------
(* XML text: a string is a sequence of lexemes, each a tag (one lexeme)   *)
(* or a single character of text                                          *)

MaxRequests == 2

\* A JavaScript value held by a Row or Cell property: null, undefined or a
\* string
JsNullValue == [kind |-> "null", s |-> <<>>]
JsUndefinedValue == [kind |-> "undefined", s |-> <<>>]
JsStr(s) == [kind |-> "string", s |-> s]
EmptyObjectValue == [kind |-> "object", s |-> <<>>]

RECURSIVE Concat(_)
\* The characters of a sequence as one string
Concat(cs) == IF cs = <<>> THEN "" ELSE cs[1] \o Concat(Tail(cs))

RECURSIVE ReplaceAll(_, _, _)
\* String.prototype.replace(/c/g, rep) for a one-character pattern c
ReplaceAll(s, c, rep) ==
    IF s = <<>> THEN <<>>
    ELSE (IF s[1] = c THEN rep ELSE <<s[1]>>) \o ReplaceAll(Tail(s), c, rep)

AMP == <<"&", "a", "m", "p", ";">>
LT == <<"&", "l", "t", ";">>
GT == <<"&", "g", "t", ";">>
QUOT == <<"&", "q", "u", "o", "t", ";">>

\* Mutant: the ampersand is escaped last, after the entities were written
xmlSafeValueAmpLast(val) ==
    IF val.kind \in {"null", "undefined"} THEN <<>>
    ELSE ReplaceAll(ReplaceAll(ReplaceAll(ReplaceAll(val.s, "<", LT),
                                          ">", GT), "\"", QUOT), "&", AMP)

\* xmlSafeValue
xmlSafeValue(val) ==
    IF val.kind \in {"null", "undefined"} THEN <<>>
    ELSE ReplaceAll(ReplaceAll(ReplaceAll(ReplaceAll(val.s, "&", AMP),
                                          "<", LT), ">", GT), "\"", QUOT)

\* toLowerCase on one character
LowerChar(c) ==
    CASE c = "A" -> "a"
      [] c = "B" -> "b"
      [] OTHER -> c

\* Whether /[\s_]/ matches the character
IsSpaceOrUnderscore(c) == c \in {" ", "\t", "\n", "_"}

\* Mutant: the regular expression without its g flag, so that only the
\* first run of whitespace and underscores is removed
xmlSafeColumnNameFirstRun(val) ==
    IF val = <<>> THEN <<>>
    ELSE LET hits == { i \in 1..Len(val) : IsSpaceOrUnderscore(val[i]) }
             kept == IF hits = {} THEN val
                     ELSE LET i == CHOOSE i \in hits : \A k \in hits : i <= k
                              rest == { j \in i..Len(val) :
                                          ~IsSpaceOrUnderscore(val[j]) }
                              e == IF rest = {} THEN Len(val) + 1
                                   ELSE CHOOSE j \in rest : \A k \in rest : j <= k
                          IN SubSeq(val, 1, i - 1) \o SubSeq(val, e, Len(val))
         IN [i \in 1..Len(kept) |-> LowerChar(kept[i])]

\* xmlSafeColumnName
xmlSafeColumnName(val) ==
    IF val = <<>> THEN <<>>
    ELSE LET kept == SelectSeq(val, LAMBDA c : ~IsSpaceOrUnderscore(c))
         IN [i \in 1..Len(kept) |-> LowerChar(kept[i])]

\* Has s the sequence w at position i
HasAt(s, w, i) ==
    /\ i + Len(w) - 1 <= Len(s)
    /\ \A k \in 1..Len(w) : s[i + k - 1] = w[k]

RECURSIVE XmlDecode(_)
\* The text the XML parser reads from escaped character data
XmlDecode(raw) ==
    IF raw = <<>> THEN <<>>
    ELSE IF HasAt(raw, AMP, 1) THEN <<"&">> \o XmlDecode(SubSeq(raw, 6, Len(raw)))
    ELSE IF HasAt(raw, LT, 1) THEN <<"<">> \o XmlDecode(SubSeq(raw, 5, Len(raw)))
    ELSE IF HasAt(raw, GT, 1) THEN <<">">> \o XmlDecode(SubSeq(raw, 5, Len(raw)))
    ELSE IF HasAt(raw, QUOT, 1) THEN <<"\"">> \o XmlDecode(SubSeq(raw, 7, Len(raw)))
    ELSE <<raw[1]>> \o XmlDecode(Tail(raw))

\* The first position of lexeme w in s, 0 when absent
FirstIndex(s, w) ==
    IF \E i \in 1..Len(s) : s[i] = w
    THEN CHOOSE i \in 1..Len(s) : s[i] = w /\ \A j \in 1..(i-1) : s[j] # w
    ELSE 0

\* String.prototype.replace(w, rep) for a lexeme w and a replacement
\* without $ patterns: the first occurrence only
ReplaceFirst(s, w, rep) ==
    LET i == FirstIndex(s, w)
    IN IF i = 0 THEN s
       ELSE SubSeq(s, 1, i - 1) \o rep \o SubSeq(s, i + 1, Len(s))

OpenTag(name) == "<gsx:" \o name \o ">"
CloseTag(name) == "</gsx:" \o name \o ">"

\* Where new RegExp('<gsx:NAME>([\s\S]*?)</gsx:NAME>') matches in s: the
\* leftmost opening tag that has a closing tag after it, up to the first
\* closing tag after it; <<0, 0>> for no match
MatchColumn(s, name) ==
    LET starts == { i \in 1..Len(s) :
                      /\ s[i] = OpenTag(name)
                      /\ \E j \in (i+1)..Len(s) : s[j] = CloseTag(name) }
    IN IF starts = {} THEN <<0, 0>>
       ELSE LET i == CHOOSE i \in starts : \A k \in starts : i <= k
                j == CHOOSE j \in (i+1)..Len(s) :
                        /\ s[j] = CloseTag(name)
                        /\ \A k \in (i+1)..(j-1) : s[k] # CloseTag(name)
            IN <<i, j>>

RECURSIVE Substitute(_, _, _, _)
\* The replacement text String.prototype.replace builds from the
\* replacement string tpl for the match s[i..j] with one capture group:
\* $$ is a dollar sign, $& the match, $1 the group
Substitute(tpl, s, i, j) ==
    IF tpl = <<>> THEN <<>>
    ELSE IF tpl[1] = "$" /\ Len(tpl) >= 2 /\ tpl[2] = "$"
         THEN <<"$">> \o Substitute(SubSeq(tpl, 3, Len(tpl)), s, i, j)
    ELSE IF tpl[1] = "$" /\ Len(tpl) >= 2 /\ tpl[2] = "&"
         THEN SubSeq(s, i, j) \o Substitute(SubSeq(tpl, 3, Len(tpl)), s, i, j)
    ELSE IF tpl[1] = "$" /\ Len(tpl) >= 2 /\ tpl[2] = "1"
         THEN SubSeq(s, i + 1, j - 1)
                \o Substitute(SubSeq(tpl, 3, Len(tpl)), s, i, j)
    ELSE <<tpl[1]>> \o Substitute(Tail(tpl), s, i, j)

\* data_xml.replace(new RegExp(...), '<gsx:NAME>' + value + '</gsx:NAME>')
ReplaceColumn(s, name, value) ==
    LET m == MatchColumn(s, name)
        tpl == <<OpenTag(name)>> \o value \o <<CloseTag(name)>>
    IN IF m[1] = 0 THEN s
       ELSE SubSeq(s, 1, m[1] - 1) \o Substitute(tpl, s, m[1], m[2])
              \o SubSeq(s, m[2] + 1, Len(s))

-----------------------------------------------------------------------------
(* SpreadsheetRow *)

UndefinedTarget == [kind |-> "undefined", str |-> "", arr |-> <<>>]

\* What an entity operation did: it called makeFeedRequest(target, method,
\* body), or it threw before the call
Requested(by, target, method, body) ==
    [by |-> by, outcome |-> "request", target |-> target, method |-> method,
     body |-> body]
Threw(by) ==
    [by |-> by, outcome |-> "TypeError", target |-> UndefinedTarget,
     method |-> "", body |-> <<>>]

ROW_ENTRY_NS == "<entry xmlns='http://www.w3.org/2005/Atom' xmlns:gsx='http://schemas.google.com/spreadsheets/2006/extended'>"

SELF_URL == "https://spreadsheets.google.com/feeds/list/KEY/1/private/full/cokwr/self"

SelfLink == [rel |-> "self", href |-> SELF_URL]
EditLink == [rel |-> "edit", href |-> EDIT_URL]

\* The link property of a parsed entry: absent, one object, or an array
LinkValues ==
    { JsUndefined, JsObject(SelfLink), JsArray(<<SelfLink, EditLink>>) }

\* The link elements of an entry as lexemes
LinkXml(val) ==
    [i \in 1..Len(forceArray(val)) |->
        "<link rel='" \o forceArray(val)[i].rel \o "' href='"
          \o forceArray(val)[i].href \o "'/>"]

\* self['_links'] after the forEach over the links: rel -> href, a later
\* link of a rel replacing an earlier one
LinkMap(links) ==
    [r \in {links[i].rel : i \in 1..Len(links)} |->
        links[CHOOSE i \in 1..Len(links) :
                 /\ links[i].rel = r
                 /\ \A j \in (i+1)..Len(links) : links[j].rel # r].href]

\* self['_links']['edit'] as the url_params of makeFeedRequest
EditTarget(map) ==
    IF "edit" \in DOMAIN map THEN StrTarget(map["edit"]) ELSE UndefinedTarget

\* The escaped character data of a column element in the feed
RawTexts == { <<>>, <<"x">>, <<"$", "$">>, AMP }

\* The opening tags of an entry in the feed
EntryTags == { "<entry>", "<entry gd:etag='e'>" }

\* The raw XML of an entry with columns a and b
EntryXml(open, link, rawA, rawB) ==
    <<open, "<id>", "I", "</id>">> \o LinkXml(link)
      \o <<OpenTag("a")>> \o rawA \o <<CloseTag("a")>>
      \o <<OpenTag("b")>> \o rawB \o <<CloseTag("b")>>
      \o <<"</entry>">>

\* The value xml2js gives for an element with that character data
ParsedText(raw) ==
    IF raw = <<>> THEN EmptyObjectValue ELSE JsStr(XmlDecode(raw))

\* The value the Row constructor stores for a gsx: key
ColumnValue(val) == IF val.kind = "object" THEN JsNullValue ELSE val

FunctionValue == [kind |-> "string", s |-> <<"function () {...}">>]

\* new SpreadsheetRow(spreadsheet, data, xml): the properties in the order
\* Object.keys lists them; xml is undefined when hasXml is FALSE
NewRow(hasXml, open, link, rawA, rawB) ==
    [ hasXml |-> hasXml,
      xml |-> IF hasXml THEN EntryXml(open, link, rawA, rawB) ELSE <<>>,
      hasLinks |-> link # JsUndefined,
      links |-> LinkMap(forceArray(link)),
      keys |-> << <<"i", "d">>, <<"a">>, <<"b">>,
                  <<"s", "a", "v", "e">>, <<"d", "e", "l">> >>,
      vals |-> << JsStr(<<"I">>), ColumnValue(ParsedText(rawA)),
                  ColumnValue(ParsedText(rawB)), FunctionValue, FunctionValue >> ]

\* The values a caller assigns to a column
RowValues ==
    { JsStr(<<>>), JsStr(<<"x">>), JsStr(<<"y">>), JsStr(<<"&">>),
      JsStr(<<"$", "$">>), JsStr(<<"$", "&">>), JsStr(<<"$", "1">>) }

ColumnIndex == {2, 3}

\* The caller assigns row[key] = value for a column
RowSet ==
    /\ \E i \in ColumnIndex, v \in RowValues :
         row' = [row EXCEPT !.vals[i] = v]
    /\ UNCHANGED <<authVars, now, issued, initFetch, call, cell, requests, util>>

RECURSIVE PatchColumns(_, _, _)
\* The forEach of save() over Object.keys(self), from the i-th key on
PatchColumns(xml, r, i) ==
    IF i > Len(r.keys) THEN xml
    ELSE PatchColumns(
           ReplaceColumn(xml, Concat(xmlSafeColumnName(r.keys[i])),
                         xmlSafeValue(r.vals[i])),
           r, i + 1)

\* The data_xml save() sends
RowSaveXml(r) ==
    PatchColumns(ReplaceFirst(r.xml, "<entry>", <<ROW_ENTRY_NS>>), r, 1)

\* Mutant: save() treats a missing _xml as the empty string and sends it
RowSaveWithoutXml ==
    /\ row # NoRow
    /\ Len(requests) < MaxRequests
    /\ requests' = Append(requests,
         IF ~row.hasLinks THEN Threw("row.save")
         ELSE Requested("row.save", EditTarget(row.links), "PUT",
                        RowSaveXml(row)))
    /\ UNCHANGED <<authVars, now, issued, initFetch, call, row, cell, util>>

\* SpreadsheetRow.save
RowSave ==
    /\ row # NoRow
    /\ Len(requests) < MaxRequests
    /\ requests' = Append(requests,
         IF ~row.hasXml \/ ~row.hasLinks THEN Threw("row.save")
         ELSE Requested("row.save", EditTarget(row.links), "PUT",
                        RowSaveXml(row)))
    /\ UNCHANGED <<authVars, now, issued, initFetch, call, row, cell, util>>

\* SpreadsheetRow.del
RowDel ==
    /\ row # NoRow
    /\ Len(requests) < MaxRequests
    /\ requests' = Append(requests,
         IF ~row.hasLinks THEN Threw("row.del")
         ELSE Requested("row.del", EditTarget(row.links), "DELETE", <<>>))
    /\ UNCHANGED <<authVars, now, issued, initFetch, call, row, cell, util>>

InitRow ==
    /\ Constructed(Null, [visibility |-> "", projection |-> ""])
    /\ now = 0
    /\ issued = 0
    /\ initFetch = {}
    /\ call = [p \in Calls |-> IdleCall]
    /\ row \in { NewRow(h, open, link, rawA, rawB) :
                   h \in BOOLEAN, open \in EntryTags, link \in LinkValues,
                   rawA \in RawTexts, rawB \in RawTexts }
    /\ cell = NoCell
    /\ requests = <<>>
    /\ util = NoUtil

\* A row is edited, then saved or deleted
NextRow ==
    \/ requests = <<>> /\ RowSet
    \/ RowSave
    \/ RowDel

SpecRow == InitRow /\ [][NextRow]_vars

-----------------------------------------------------------------------------
(* SpreadsheetCell *)

CELL_ENTRY_NS == "<entry xmlns='http://www.w3.org/2005/Atom' xmlns:gs='http://schemas.google.com/spreadsheets/2006'>"

CELL_EDIT_URL == "https://spreadsheets.google.com/feeds/cells/KEY/1/private/full/R1C1/abc"

CellEditLink == [rel |-> "edit", href |-> CELL_EDIT_URL]

\* The link property of a parsed cell entry
CellLinkValues ==
    { JsUndefined, JsObject(SelfLink), JsArray(<<SelfLink, CellEditLink>>) }

\* The text of gs:cell in the feed: a string, or undefined for an empty cell
CellValues ==
    { JsUndefinedValue, JsStr(<<"x">>), JsStr(<<"&", "<">>), JsStr(<<"$", "1">>) }

\* The values a caller passes to setValue
NewCellValues == { JsStr(<<>>), JsStr(<<"y">>), JsStr(<<"\"", ">">>) }

\* new SpreadsheetCell(spreadsheet, worksheet_id, data)
NewCell(r, c, v, link) ==
    [ id |-> "https://spreadsheets.google.com/feeds/cells/KEY/1/private/full/R"
               \o ToString(r) \o "C" \o ToString(c),
      row |-> r, col |-> c, value |-> v,
      links |-> LinkMap(forceArray(link)) ]

\* edit_id of save()
EditId(c) ==
    "https://spreadsheets.google.com/feeds/cells/key/worksheetId/private/full/R"
      \o ToString(c.row) \o "C" \o ToString(c.col)

\* The data_xml save() sends for a cell
CellSaveXml(c) ==
    ReplaceFirst(
      <<"<entry>", "<id>", EditId(c), "</id>",
        "<link rel=\"edit\" type=\"application/atom+xml\" href=\"", EditId(c), "\"/>",
        "<gs:cell row=\"", ToString(c.row), "\" col=\"", ToString(c.col),
        "\" inputValue=\"">>
        \o xmlSafeValue(c.value) \o <<"\"/>", "</entry>">>,
      "<entry>", <<CELL_ENTRY_NS>>)

\* The makeFeedRequest call of save() for a cell
CellRequest(by, c) ==
    Requested(by, EditTarget(c.links), "PUT", CellSaveXml(c))

\* SpreadsheetCell.save
CellSave ==
    /\ cell # NoCell
    /\ Len(requests) < MaxRequests
    /\ requests' = Append(requests, CellRequest("cell.save", cell))
    /\ UNCHANGED <<authVars, now, issued, initFetch, call, row, cell, util>>

\* SpreadsheetCell.setValue(new_value): assigns, then save()
CellSetValue ==
    /\ cell # NoCell
    /\ Len(requests) < MaxRequests
    /\ \E new_value \in NewCellValues :
         /\ cell' = [cell EXCEPT !.value = new_value]
         /\ requests' = Append(requests, CellRequest("cell.setValue", cell'))
    /\ UNCHANGED <<authVars, now, issued, initFetch, call, row, util>>

\* Mutant: del() sends a DELETE to the edit link, as a row's del() does
CellDelDeletes ==
    /\ cell # NoCell
    /\ Len(requests) < MaxRequests
    /\ requests' = Append(requests,
         Requested("cell.del", EditTarget(cell.links), "DELETE", <<>>))
    /\ UNCHANGED <<authVars, now, issued, initFetch, call, row, cell, util>>

\* SpreadsheetCell.del: setValue('')
CellDel ==
    /\ cell # NoCell
    /\ Len(requests) < MaxRequests
    /\ cell' = [cell EXCEPT !.value = JsStr(<<>>)]
    /\ requests' = Append(requests, CellRequest("cell.del", cell'))
    /\ UNCHANGED <<authVars, now, issued, initFetch, call, row, util>>

InitCell ==
    /\ Constructed(Null, [visibility |-> "", projection |-> ""])
    /\ now = 0
    /\ issued = 0
    /\ initFetch = {}
    /\ call = [p \in Calls |-> IdleCall]
    /\ row = NoRow
    /\ cell \in { NewCell(r, c, v, link) :
                    r \in 1..2, c \in 1..2, v \in CellValues,
                    link \in CellLinkValues }
    /\ requests = <<>>
    /\ util = NoUtil

NextCell ==
    \/ CellSave
    \/ CellSetValue
    \/ CellDel

SpecCell == InitCell /\ [][NextCell]_vars

-----------------------------------------------------------------------------
(* The utility functions applied to every string over a small alphabet *)

MaxValueLen == 4
MaxNameLen == 3

\* The strings over an alphabet up to a length
Strings(alphabet, n) == UNION { [1..k -> alphabet] : k \in 0..n }

\* The four characters xmlSafeValue escapes, and the characters of '&lt;'
ValueAlphabet == { "&", "<", ">", "\"", "l", "t", ";" }

\* Upper and lower case letters, whitespace and the underscore
NameAlphabet == { "A", "B", "a", " ", "\t", "_" }

\* xmlSafeValue(arg) is called on a string
ApplyXmlSafeValue ==
    /\ util.fn = "value"
    /\ util' = [util EXCEPT !.fn = "xmlSafeValue",
                            !.out = xmlSafeValue(JsStr(util.arg))]
    /\ UNCHANGED <<authVars, now, issued, initFetch, call, row, cell, requests>>

InitValue ==
    /\ Constructed(Null, [visibility |-> "", projection |-> ""])
    /\ now = 0
    /\ issued = 0
    /\ initFetch = {}
    /\ call = [p \in Calls |-> IdleCall]
    /\ row = NoRow
    /\ cell = NoCell
    /\ requests = <<>>
    /\ \E s \in Strings(ValueAlphabet, MaxValueLen) :
         util = [NoUtil EXCEPT !.fn = "value", !.arg = s]

NextValue == ApplyXmlSafeValue

SpecValue == InitValue /\ [][NextValue]_vars

\* xmlSafeColumnName(arg) is called on a name
ApplyXmlSafeColumnName ==
    /\ util.fn = "name"
    /\ util' = [util EXCEPT !.fn = "xmlSafeColumnName",
                            !.out = xmlSafeColumnName(util.arg)]
    /\ UNCHANGED <<authVars, now, issued, initFetch, call, row, cell, requests>>

\* xmlSafeColumnName is called on its own result
ApplyXmlSafeColumnNameAgain ==
    /\ util.fn = "xmlSafeColumnName"
    /\ util' = [util EXCEPT !.fn = "xmlSafeColumnName twice",
                            !.again = xmlSafeColumnName(util.out)]
    /\ UNCHANGED <<authVars, now, issued, initFetch, call, row, cell, requests>>

InitName ==
    /\ Constructed(Null, [visibility |-> "", projection |-> ""])
    /\ now = 0
    /\ issued = 0
    /\ initFetch = {}
    /\ call = [p \in Calls |-> IdleCall]
    /\ row = NoRow
    /\ cell = NoCell
    /\ requests = <<>>
    /\ \E s \in Strings(NameAlphabet, MaxNameLen) :
         util = [NoUtil EXCEPT !.fn = "name", !.arg = s]

NextName ==
    \/ ApplyXmlSafeColumnName
    \/ ApplyXmlSafeColumnNameAgain

SpecName == InitName /\ [][NextName]_vars

-----------------------------------------------------------------------------
(* Properties of the auth state machine and of the request chain *)

\* C1: in service-account mode, an invocation whose expiry check finds the
\* stored token's expiry not later than the clock starts exactly one token
\* fetch and sends nothing before the fetched token has replaced the stored
\* credential; one that finds the expiry in the future starts no fetch.
C1_ExpiredTokenRenewedOnce ==
    [][ \A p \in Calls :
          LET c == call[p]
              d == call'[p]
          IN /\ ( /\ c.pc = "queued" /\ d.pc # "queued"
                  /\ auth_mode = "jwt"
                  /\ google_auth.kind = "object" /\ google_auth.expires # -1 )
                => IF google_auth.expires <= now
                   THEN d.pc = "renewing" /\ d.fetches = 1 /\ d.sent = 0
                        /\ d.check = "expired"
                   ELSE d.pc = "ready" /\ d.fetches = 0 /\ d.check = "fresh"
             /\ (c.pc = "renewing" /\ d.pc = "ready")
                => /\ d.tok = ObjCred("Bearer", "ya29." \o ToString(c.fetchId),
                                      now + TokenTTL)
                   /\ google_auth' = d.tok
                   /\ d.sent = 0
             /\ d.sent > c.sent
                => /\ c.pc = "ready" /\ d.sent = 1
                   /\ (d.check = "expired" => d.fetches = 1 /\ d.tok # Null)
                   /\ (d.check = "fresh" => d.fetches = 0)
             /\ d.fetches <= 1
      ]_vars

\* An invocation that found the token expired has fetched a token and sent
\* its request
C1_Witness ==
    \E p \in Calls :
        /\ call[p].check = "expired"
        /\ call[p].tok # Null
        /\ call[p].sent = 1

\* C2: once the auth mode has left anonymous it is never anonymous again.
C2_NeverAnonymousAgain ==
    [][auth_mode # "anonymous" => auth_mode' # "anonymous"]_vars

\* The mode is no longer anonymous, a credential was cleared and a token
\* fetch has failed
C2_Witness ==
    /\ auth_mode = "jwt"
    /\ google_auth = Null
    /\ \E p \in Calls : call[p].err = "AuthorizeError"

\* C3 as stated: a client in token mode stays in token mode and a client
\* in service-account mode stays in service-account mode.
C3_ModesAreFinal ==
    [][ /\ (auth_mode = "token" => auth_mode' = "token")
        /\ (auth_mode = "jwt" => auth_mode' = "jwt") ]_vars

\* C3 amended: the only auth-mode changes are anonymous -> token (by
\* setAuthToken) and anonymous -> service-account or token ->
\* service-account (both by useServiceAccountAuth); a client in
\* service-account mode stays in it.
C3_ModeChanges ==
    [][ /\ (auth_mode = "jwt" => auth_mode' = "jwt")
        /\ (auth_mode' # auth_mode /\ auth_mode' = "token")
             => auth_mode = "anonymous" /\ SetAuthToken(UserCreds)
        /\ (auth_mode' # auth_mode /\ auth_mode' = "jwt")
             => auth_mode \in {"anonymous", "token"} /\ UseServiceAccountAuth
      ]_vars

\* A service-account client that went through a token fetch and holds a
\* caller-supplied credential
C3_Witness ==
    /\ auth_mode = "jwt"
    /\ google_auth.kind = "string"
    /\ \E p \in Calls : call[p].fetches = 1 /\ call[p].tok # Null

\* The Authorization header C5 states for a stored credential
ClaimedAuthorization(auth) ==
    IF auth.kind = "object" /\ auth.type = "Bearer"
    THEN "Bearer " \o auth.value
    ELSE "GoogleLogin auth=" \o auth.value

\* C5: every request carries 'Bearer ' + value for a Bearer credential and
\* 'GoogleLogin auth=' + the credential's token value for a legacy one,
\* and no Authorization header when no credential is stored.
C5_HeaderMatchesCredential ==
    [][ \A p \in Calls :
          call'[p].sent > call[p].sent
          => LET h == call'[p].req.headers
             IN IF google_auth.kind = "null"
                THEN "Authorization" \notin DOMAIN h
                ELSE /\ "Authorization" \in DOMAIN h
                     /\ h["Authorization"] = ClaimedAuthorization(google_auth)
      ]_vars

\* C7: an invocation sends at most one HTTP request and starts at most one
\* token fetch, and once it has failed nothing more happens in it.
C7_NoRetry ==
    [][ \A p \in Calls :
          LET c == call[p]
              d == call'[p]
          IN /\ d.sent <= 1
             /\ d.fetches <= 1
             /\ c.pc = "failed" => (d = c \/ d = IdleCall)
             /\ (c.pc = "awaiting" /\ d.err # "") => d.pc = "failed"
      ]_vars

\* An invocation that renewed the token, sent its request and failed on
\* the response
C7_Witness ==
    \E p \in Calls :
        /\ call[p].pc = "failed"
        /\ call[p].err = "PrivateResourceFailure"
        /\ call[p].fetches = 1
        /\ call[p].sent = 1

\* C4 as stated: 401 gives an authorization failure with the body in its
\* message, any other status >= 400 a request failure with the status code
\* and the body in its message, 200 with an HTML content type the
\* private-resource failure, and every other response passes; in the three
\* failure cases the body never reaches the parser and nothing is returned.
C4_Classification ==
    [][ \A p \in Calls :
          LET c == call[p]
              d == call'[p]
              res == d.res
          IN (c.pc = "awaiting" /\ res # NoResponse)
             => IF res.status = 401
                THEN /\ d.pc = "failed" /\ d.err = "AuthorizationFailure"
                     /\ d.msg = "Invalid authorization key. " \o res.body
                     /\ ~d.parsed /\ d.result = NoResult
                ELSE IF res.status >= 400
                THEN /\ d.pc = "failed" /\ d.err = "RequestFailure"
                     /\ d.msg = "HTTP error " \o ToString(res.status) \o ": "
                                  \o STATUS_CODES(res.status) \o ". " \o res.body
                     /\ ~d.parsed /\ d.result = NoResult
                ELSE IF res.status = 200
                        /\ \E i \in 1..Len(res.ctype) : res.ctype[i] = "text/html"
                THEN /\ d.pc = "failed" /\ d.err = "PrivateResourceFailure"
                     /\ ~d.parsed /\ d.result = NoResult
                ELSE d.pc = "classified" /\ d.err = ""
      ]_vars

\* Both invocations looked at the same token and found it expired
SameExpiredTokenSeen ==
    /\ \A p \in Calls : call[p].check = "expired"
    /\ \A p, q \in Calls : call[p].seen = call[q].seen

\* C6: when two invocations in service-account mode both find the same
\* token expired, each starts a fetch, the mode stays service-account,
\* once both fetches have succeeded the stored credential is one of the
\* two fetched tokens, and each request sent carries one of the fetched
\* tokens and never the expired one.
C6_DuplicateRefreshIsSafe ==
    SameExpiredTokenSeen
    => /\ auth_mode = "jwt"
       /\ \A p \in Calls : call[p].fetches = 1
       /\ (\A p \in Calls : call[p].tok # Null)
            => \E p \in Calls : google_auth = call[p].tok
       /\ \A p \in Calls :
            call[p].sent = 1
            => /\ "Authorization" \in DOMAIN call[p].req.headers
               /\ \E q \in Calls :
                    /\ call[q].tok # Null
                    /\ call[p].req.headers["Authorization"]
                         = "Bearer " \o call[q].tok.value
               /\ call[p].req.headers["Authorization"]
                    # "Bearer " \o call[p].seen

\* Both invocations renewed the same expired token and both sent their
\* request, with different tokens
C6_Witness ==
    /\ SameExpiredTokenSeen
    /\ \A p \in Calls : call[p].tok # Null /\ call[p].sent = 1
    /\ call["A"].req.headers # call["B"].req.headers

\* C8 as stated: when makeFeedRequest yields (null, null), getInfo, getRows
\* and getCells end in their 'No response to ... call' failure.
C8_EmptyResponseFailure ==
    [][ \A p \in Calls :
          LET c == call[p]
              d == call'[p]
          IN ( /\ c.pc = "resolved" /\ c.op \in ReadOps
               /\ c.result.json = NullJson /\ c.result.xml = ""
               /\ d.pc # "resolved" )
             => /\ d.pc = "failed"
                /\ d.err = "EmptyResponse"
                /\ d.msg = "No response to " \o c.op \o " call"
      ]_vars

\* The value the row held for its i-th key when it was built from row.xml
OriginalValue(i) ==
    LET m == MatchColumn(row.xml, Concat(row.keys[i]))
    IN ColumnValue(ParsedText(SubSeq(row.xml, m[1] + 1, m[2] - 1)))

ColumnTags == { OpenTag("a"), CloseTag("a"), OpenTag("b"), CloseTag("b") }

\* body is xml with nothing but the character data of column name changed
DiffersOnlyInColumn(body, xml, name) ==
    LET m == MatchColumn(xml, name)
        tail == Len(xml) - m[2] + 1
    IN /\ Len(body) >= m[1] + tail
       /\ SubSeq(body, 1, m[1]) = SubSeq(xml, 1, m[1])
       /\ SubSeq(body, Len(body) - tail + 1, Len(body)) = SubSeq(xml, m[2], Len(xml))
       /\ \A k \in (m[1] + 1)..(Len(body) - tail) : body[k] \notin ColumnTags

\* C9 as stated: after one column of a row built from a raw fragment was
\* changed, save() sends a PUT to the row's edit link whose body differs
\* from the fragment only in that column's text content.
C9_SaveChangesOnlyThatColumn ==
    \A n \in 1..Len(requests) :
      \A i \in ColumnIndex :
        ( /\ requests[n].by = "row.save"
          /\ row.hasXml /\ "edit" \in DOMAIN row.links
          /\ row.vals[i] # OriginalValue(i)
          /\ \A k \in ColumnIndex \ {i} : row.vals[k] = OriginalValue(k) )
        => /\ requests[n].outcome = "request"
           /\ requests[n].target = StrTarget(row.links["edit"])
           /\ requests[n].method = "PUT"
           /\ DiffersOnlyInColumn(requests[n].body, row.xml, Concat(row.keys[i]))

\* The edit document of a cell at (r, c) with an empty input value
EmptyCellDocument(r, c) ==
    << CELL_ENTRY_NS, "<id>",
       "https://spreadsheets.google.com/feeds/cells/key/worksheetId/private/full/R"
         \o ToString(r) \o "C" \o ToString(c),
       "</id>",
       "<link rel=\"edit\" type=\"application/atom+xml\" href=\"",
       "https://spreadsheets.google.com/feeds/cells/key/worksheetId/private/full/R"
         \o ToString(r) \o "C" \o ToString(c),
       "\"/>",
       "<gs:cell row=\"", ToString(r), "\" col=\"", ToString(c),
       "\" inputValue=\"", "\"/>", "</entry>" >>

\* C10: del() on a cell makes exactly one makeFeedRequest call, a PUT to
\* the cell's captured edit link with the edit document of the same row
\* and column and an empty input value, and leaves the cell's value the
\* empty string: the call and the cell are those setValue('') gives.
C10_DelIsSetValueEmpty ==
    [][ CellDel
        => LET last == requests'[Len(requests')]
           IN /\ Len(requests') = Len(requests) + 1
              /\ last.outcome = "request"
              /\ last.method = "PUT"
              /\ last.target = EditTarget(cell.links)
              /\ last.body = EmptyCellDocument(cell.row, cell.col)
              /\ cell'.value = JsStr(<<>>)
              /\ cell' = [cell EXCEPT !.value = JsStr(<<>>)]
              /\ \E v \in NewCellValues :
                   /\ v = JsStr(<<>>)
                   /\ [last EXCEPT !.by = "cell.setValue"]
                        = CellRequest("cell.setValue", [cell EXCEPT !.value = v])
      ]_vars

\* A cell that held a value and has an edit link was deleted
C10_Witness ==
    /\ Len(requests) = 1
    /\ requests[1].by = "cell.del"
    /\ requests[1].target = StrTarget(CELL_EDIT_URL)
    /\ cell.value = JsStr(<<>>)

\* C11: in every state, visibility is options.visibility when that option
\* was given and otherwise 'private' exactly when a credential is stored;
\* projection is options.projection when given and otherwise 'full' exactly
\* when a credential is stored.
C11_DependenciesFollowOptions ==
    /\ visibility = (IF options.visibility # "" THEN options.visibility
                     ELSE IF Truthy(google_auth) THEN "private" ELSE "public")
    /\ projection = (IF options.projection # "" THEN options.projection
                     ELSE IF Truthy(google_auth) THEN "full" ELSE "values")

\* The entity of an escaped character, the character itself otherwise
EntityOf(c) ==
    CASE c = "&" -> <<"&", "a", "m", "p", ";">>
      [] c = "<" -> <<"&", "l", "t", ";">>
      [] c = ">" -> <<"&", "g", "t", ";">>
      [] c = "\"" -> <<"&", "q", "u", "o", "t", ";">>
      [] OTHER -> <<c>>

RECURSIVE Escaped(_)
\* A string with each character replaced by EntityOf
Escaped(s) == IF s = <<>> THEN <<>> ELSE EntityOf(s[1]) \o Escaped(Tail(s))

\* C12: xmlSafeValue replaces each of & < > " by its entity and leaves
\* every other character as it is, and decoding the four entities in the
\* result gives the value back.
C12_EscapeRoundTrip ==
    util.fn = "xmlSafeValue"
      => /\ util.out = Escaped(util.arg)
         /\ XmlDecode(util.out) = util.arg

\* A value that already holds the text of an entity was escaped
C12_Witness ==
    /\ util.fn = "xmlSafeValue"
    /\ util.arg = <<"&", "l", "t", ";">>
    /\ util.out = <<"&", "a", "m", "p", ";", "l", "t", ";">>

\* C13: the result of xmlSafeColumnName holds no whitespace, no underscore
\* and no upper-case letter, and xmlSafeColumnName maps it to itself.
C13_SanitizeIdempotent ==
    /\ util.fn \in {"xmlSafeColumnName", "xmlSafeColumnName twice"}
         => \A i \in 1..Len(util.out) :
               util.out[i] \notin {" ", "\t", "\n", "_", "A", "B"}
    /\ util.fn = "xmlSafeColumnName twice" => util.again = util.out

\* A name with two runs of separators and an upper-case letter was
\* sanitized twice
C13_Witness ==
    /\ util.fn = "xmlSafeColumnName twice"
    /\ util.arg = <<" ", "A", "_">>
    /\ util.out = <<"a">>
    /\ util.again = <<"a">>

\* The link elements found in the raw XML of the row's entry
LinkElements ==
    { l \in {SelfLink, EditLink} :
        \E i \in 1..Len(row.xml) :
           row.xml[i] = "<link rel='" \o l.rel \o "' href='" \o l.href \o "'/>" }

\* C14: a Row built from an entry with zero, one or many link elements
\* always has a _links mapping, holding exactly one rel -> href entry per
\* link element (no entry for zero links).
C14_LinksShape ==
    (row # NoRow /\ row.hasXml)
      => /\ row.hasLinks
         /\ DOMAIN row.links = { l.rel : l \in LinkElements }
         /\ \A l \in LinkElements : row.links[l.rel] = l.href

\* C15: save() on a Row that holds no original XML ends in failure, and
\* no call of save() on such a Row hands a request to makeFeedRequest.
C15_NoXmlNoSave ==
    (row # NoRow /\ ~row.hasXml)
      => \A i \in 1..Len(requests) :
            requests[i].by = "row.save"
              => /\ requests[i].outcome = "TypeError"
                 /\ requests[i].method # "PUT"

\* save() was called on a Row without XML that has an edit link
C15_Witness ==
    /\ row # NoRow
    /\ ~row.hasXml
    /\ "edit" \in DOMAIN row.links
    /\ Len(requests) >= 1
    /\ requests[1].by = "row.save"
    /\ requests[1].outcome = "TypeError"

\* The url of a target: the string itself, or the base feed URL followed
\* by the segments, the visibility and the projection
UrlOfTarget(t, vis, proj) ==
    IF t.kind = "string" THEN t.str
    ELSE GOOGLE_FEED_URL \o Join(t.arr \o <<vis, proj>>, "/")

\* C16 as stated: the url built for a segment list is the base feed URL,
\* the segments and the current visibility and projection joined by '/',
\* the url of a string target is that string, and the request is sent to
\* the built url, followed by '?' and the query string only when the
\* method is GET and the query has parameters.
C16_QueryOnlyWithParameters ==
    [][ /\ PrepareNoJwt("A")
          => call'["A"].url = UrlOfTarget(call["A"].target, visibility, projection)
        /\ Send("A")
          => call'["A"].req.url =
               call["A"].url \o
                 (IF /\ call["A"].method = "GET"
                     /\ call["A"].data.kind = "query"
                     /\ call["A"].data.pairs # <<>>
                  THEN "?" \o Stringify(call["A"].data.pairs)
                  ELSE "")
      ]_vars

\* C16 amended: as above, but '?' and the query string follow the built
\* url exactly when the method is GET and a query object is passed, an
\* empty one included (the url then ends with '?').
C16_QueryWithEveryQueryObject ==
    [][ /\ PrepareNoJwt("A")
          => call'["A"].url = UrlOfTarget(call["A"].target, visibility, projection)
        /\ Send("A")
          => call'["A"].req.url =
               call["A"].url \o
                 (IF call["A"].method = "GET" /\ call["A"].data.kind = "query"
                  THEN "?" \o Stringify(call["A"].data.pairs)
                  ELSE "")
      ]_vars

\* A GET with parameters was sent for a segment list on a client that
\* holds a credential
C16_Witness ==
    /\ call["A"].pc = "awaiting"
    /\ call["A"].op = "getRows"
    /\ call["A"].req.url =
         "https://spreadsheets.google.com/feeds/list/KEY/1/private/full?start-index=2&max-results=5"

\* C17 as stated, for invocations all made while the auth mode is
\* anonymous or token: no step of such an invocation starts a token fetch
\* or changes the auth mode, the stored credential, visibility or
\* projection.
C17_CallsMadeOutsideServiceAccount ==
    [][ \A p \in Calls :
          LET c == call[p]
              d == call'[p]
          IN d # c
             => /\ UNCHANGED <<auth_mode, google_auth, visibility, projection>>
                /\ issued' = issued
                /\ d.fetches = 0
      ]_vars

\* C17 amended: the first callback of a chain, run while the auth mode is
\* anonymous or token, goes on to the request whatever the expiry of the
\* stored token, and no step of that chain, from this callback on, starts
\* a token fetch or changes the auth mode, the stored credential,
\* visibility or projection.
C17_NoFetchOutsideServiceAccount ==
    [][ \A p \in Calls :
          LET c == call[p]
              d == call'[p]
          IN /\ (c.pc = "queued" /\ d.pc # "queued" /\ auth_mode # "jwt")
                => /\ d.pc = "ready" /\ d.check = "none" /\ d.fetches = 0
                   /\ UNCHANGED <<auth_mode, google_auth, visibility, projection>>
                   /\ issued' = issued
             /\ (c.check = "none" /\ c.pc \notin {"idle", "queued"} /\ d # c)
                => /\ UNCHANGED <<auth_mode, google_auth, visibility, projection>>
                   /\ issued' = issued
                   /\ d.fetches = 0
      ]_vars

\* In token mode, with a stored token whose expiry has passed, a request
\* was sent and answered, and no token was ever fetched
C17_Witness ==
    /\ auth_mode = "token"
    /\ google_auth = ObjCred("Bearer", "user.tok", 1)
    /\ now = 1
    /\ issued = 0
    /\ call["A"].sent = 1
    /\ call["A"].pc \in {"resolved", "returned", "failed"}
    /\ call["A"].req.headers["Authorization"] = "Bearer user.tok"

\* C18: when the token fetch a chain started in service-account mode
\* fails, the chain ends in failure and has sent no HTTP request; starting
\* the fetch and its failure both leave the stored credential, visibility
\* and projection as they are, and the auth mode service-account.
C18_FailedFetchLeavesAuth ==
    [][ \A p \in Calls :
          LET c == call[p]
              d == call'[p]
          IN /\ (c.pc = "queued" /\ d.pc = "renewing")
                => /\ auth_mode = "jwt" /\ auth_mode' = "jwt"
                   /\ UNCHANGED <<google_auth, visibility, projection>>
                   /\ d.sent = 0
             /\ (c.pc = "renewing" /\ d.pc = "failed")
                => /\ d.err = "AuthorizeError"
                   /\ d.sent = 0
                   /\ d.req = NoRequest
                   /\ auth_mode = "jwt" /\ auth_mode' = "jwt"
                   /\ UNCHANGED <<google_auth, visibility, projection>>
             /\ c.err = "AuthorizeError"
                => c.pc = "failed" /\ c.sent = 0 /\ d.sent = 0
      ]_vars

\* A chain's token fetch has failed on a service-account client that
\* still holds its credential
C18_Witness ==
    /\ call["A"].pc = "failed"
    /\ call["A"].err = "AuthorizeError"
    /\ call["A"].fetches = 1
    /\ call["A"].sent = 0
    /\ auth_mode = "jwt"
    /\ Truthy(google_auth)
    /\ visibility = "private"

\* C19 as stated: no HTTP request is sent while the auth mode is
\* service-account without an Authorization header, and a chain whose
\* first callback runs in service-account mode while no token is stored
\* ends in failure there, having sent no HTTP request, and sends none later.
C19_NoRequestWithoutHeader ==
    [][ \A p \in Calls :
          LET c == call[p]
              d == call'[p]
          IN /\ ( /\ c.pc = "queued" /\ d.pc # "queued"
                  /\ auth_mode = "jwt" /\ ~Truthy(google_auth) )
                => /\ d.pc = "failed"
                   /\ d.sent = 0
                   /\ d.req = NoRequest
             /\ c.pc = "failed" => d = c
             /\ (d.sent > c.sent /\ auth_mode = "jwt")
                => "Authorization" \in DOMAIN d.req.headers
      ]_vars

\* C19 amended: a chain whose first callback runs in service-account mode
\* while no token is stored ends in failure there, having started no fetch
\* and sent no HTTP request, and sends none later; and every HTTP request
\* of a chain whose first callback found a token in service-account mode
\* carries an Authorization header.
C19_NoRequestWithoutToken ==
    [][ \A p \in Calls :
          LET c == call[p]
              d == call'[p]
          IN /\ ( /\ c.pc = "queued" /\ d.pc # "queued"
                  /\ auth_mode = "jwt" /\ ~Truthy(google_auth) )
                => /\ d.pc = "failed"
                   /\ d.sent = 0
                   /\ d.fetches = 0
                   /\ d.req = NoRequest
             /\ c.pc = "failed" => d = c
             /\ (d.sent > c.sent /\ c.check # "none")
                => /\ auth_mode = "jwt"
                   /\ "Authorization" \in DOMAIN d.req.headers
      ]_vars

\* A chain has failed on the missing token while the fetch of
\* useServiceAccountAuth is still pending, and the other chain, started
\* after that fetch, has sent its request
C19_Witness ==
    \E p, q \in Calls :
        /\ call[p].pc = "failed"
        /\ call[p].err = "TypeError"
        /\ call[p].sent = 0
        /\ call[q].sent = 1
        /\ call[q].check = "fresh"
        /\ auth_mode = "jwt"

====
